---- MODULE Spec2Model ----
(***************************************************************************)
(* The review loader of src/load_review.py: parse_review_files streams     *)
(* each category file in chunks, reassembles lines, filters them by the    *)
(* timestamp cutoff, samples them against the user ledger and writes the   *)
(* kept set to the sink; repeated runs share the sink.                     *)
(*                                                                         *)
(* Bytes of a stream are symbols: "\n", the two bytes "L" "C" of one       *)
(* two-byte UTF-8 character (decoded to the character "E"), and one symbol *)
(* per ASCII JSON object text (ObjectTexts).  A record carries the fields  *)
(* the sampling reads (user_id, timestamp) and its filename; the other     *)
(* projected fields are copied through unchanged by the code and left out. *)
(***************************************************************************)
EXTENDS Integers, Sequences, FiniteSets, TLC

(* ----- program constants, scaled ----- *)
MAX_REVIEWS == 2
MAX_ROWS_TO_READ == 3
start_date == 2
ChunkSize == 2

(* ----- bounds of the model ----- *)
MaxLines == 4
MaxLineLen == 1
MaxSource == 4
MaxRead == 3

(* the listing returned by get_all_files, filtered to review files; a filename
   is the url without its path and its ".gz" *)
review_files == <<"A", "B">>

(* the JSON object texts of a source: user u1 or u2, timestamp 2 (the cutoff
   itself, accepted) or 1 (before the cutoff, rejected) *)
ObjectTexts == {"u1@2", "u2@2", "u1@1"}
Bytes == {"\n", "L", "C"} \cup ObjectTexts

VARIABLES
    sink,                 \* rows of review_data, in insertion order
    outcome,              \* how the last run of main ended
    pc,                   \* position in parse_review_files
    pos,                  \* index of the current file_url in review_files
    global_users,         \* the ledger
    completed_filenames,  \* the completed set queried at the start of the run
    opened,               \* filenames a download was requested for in this run
    failed,               \* filenames whose batch write failed in this run
    drained,              \* the source has returned its last data
    buffer, rows_read, lines_processed,
    priority_data, other_data, file_users, final_data,
    accepted,             \* log of the scan in progress: the accepted records, in order
    source, offset,       \* LineSpec: the bytes of one source and how many were read
    parsed                \* LineSpec: the lines handed to json.loads, in order

scan == <<buffer, rows_read, lines_processed, priority_data, other_data,
          file_users, accepted>>
feed == <<source, offset, parsed>>
vars == <<sink, outcome, pc, pos, global_users, completed_filenames,
          opened, failed, drained, scan, final_data, feed>>

(* ----- helpers ----- *)
Min(a, b) == IF a < b THEN a ELSE b
Range(s) == {s[i] : i \in DOMAIN s}
UsersOf(rows) == {rows[i].user_id : i \in DOMAIN rows}
RowsOf(rows, f) == SelectSeq(rows, LAMBDA r : r.filename = f)

(* ----- the sink's two startup queries ----- *)
\* SELECT DISTINCT user_id FROM review_data (the except branch returns the
\* empty list, which is also the answer of a sink that stores nothing)
get_existing_users(db) == UsersOf(db)

\* SELECT DISTINCT filename FROM review_data
get_completed_categories(db) == {db[i].filename : i \in DOMAIN db}

(* ----- chunk decoding: chunk.decode('utf-8', errors='ignore') ----- *)
RECURSIVE decode(_)
decode(bs) ==
    IF bs = <<>> THEN <<>>
    ELSE IF Head(bs) = "L"
         THEN IF Len(bs) >= 2 /\ bs[2] = "C"
              THEN <<"E">> \o decode(SubSeq(bs, 3, Len(bs)))
              ELSE decode(Tail(bs))
    ELSE IF Head(bs) = "C" THEN decode(Tail(bs))
    ELSE <<Head(bs)>> \o decode(Tail(bs))

(* ----- one line: json.loads and the projected fields ----- *)
\* json.loads(line): a dict when the line is exactly one object text,
\* a JSONDecodeError otherwise
IsJson(line) == Len(line) = 1 /\ line[1] \in ObjectTexts

Review(text) ==
    CASE text = "u1@2" -> [user_id |-> "u1", timestamp |-> 2]
      [] text = "u2@2" -> [user_id |-> "u2", timestamp |-> 2]
      [] text = "u1@1" -> [user_id |-> "u1", timestamp |-> 1]

json_loads(line) == Review(line[1])

\* ts >= start_date
PassesCutoff(review) == review.timestamp >= start_date

\* user_id in global_users
IsPriority(user_id, ledger) == user_id \in ledger

\* the index of the first "\n" of a buffer that holds one
RECURSIVE FirstNewline(_)
FirstNewline(buf) == IF Head(buf) = "\n" THEN 1 ELSE 1 + FirstNewline(Tail(buf))

\* while '\n' in buffer and rows_read < MAX_ROWS_TO_READ
MoreLines(buf, n) == "\n" \in Range(buf) /\ n < MAX_ROWS_TO_READ

\* the body of the while loop for one line
ProcessLine(st, line, ledger, filename) ==
    IF line = <<>> THEN st
    ELSE LET counted == [st EXCEPT !.lines_processed = @ + 1,
                                   !.parsed = Append(@, line)] IN
         IF ~IsJson(line) THEN counted
         ELSE LET review == json_loads(line)
                  review_data == [user_id |-> review.user_id,
                                  timestamp |-> review.timestamp,
                                  filename |-> filename]
              IN IF ~PassesCutoff(review) THEN counted
                 ELSE LET row == [counted EXCEPT !.rows_read = @ + 1,
                                                 !.accepted = Append(@, review_data)]
                      IN IF IsPriority(review.user_id, ledger)
                         THEN [row EXCEPT !.priority_data = Append(@, review_data),
                                          !.file_users = @ \cup {review.user_id}]
                         ELSE [row EXCEPT !.other_data = Append(@, review_data)]

\* the while loop: split complete lines off the front of the buffer
RECURSIVE SplitLines(_, _, _)
SplitLines(st, ledger, filename) ==
    IF ~MoreLines(st.buffer, st.rows_read) THEN st
    ELSE LET i == FirstNewline(st.buffer)
             line == SubSeq(st.buffer, 1, i - 1)
             rest == SubSeq(st.buffer, i + 1, Len(st.buffer))
         IN SplitLines(ProcessLine([st EXCEPT !.buffer = rest], line, ledger, filename),
                       ledger, filename)

\* the body of the for loop, after the budget test, for one chunk
ProcessChunk(st, chunk, ledger, filename) ==
    SplitLines([st EXCEPT !.buffer = @ \o decode(chunk)], ledger, filename)

(* ----- the kept set ----- *)
\* the loop without its break: every other record is appended
AppendOthers_NoBreak(final, others) == final \o others

\* for review_data in other_data: if len(final_data) >= MAX_REVIEWS: break
RECURSIVE AppendOthers(_, _)
AppendOthers(final, others) ==
    IF others = <<>> \/ Len(final) >= MAX_REVIEWS THEN final
    ELSE AppendOthers(Append(final, Head(others)), Tail(others))

\* the cap applied to the whole list, priority records included
FinalData_Truncating(priority, others) ==
    SubSeq(priority \o others, 1, Min(MAX_REVIEWS, Len(priority) + Len(others)))

FinalData(priority, others) ==
    IF MAX_REVIEWS - Len(priority) > 0 THEN AppendOthers(priority, others)
    ELSE priority

\* file_users after the kept set is built
FileUsers(users, priority, final) ==
    users \cup UsersOf(SubSeq(final, Len(priority) + 1, Len(final)))

\* every new user of the scan is added, kept or not
ExtendLedger_AllOthers(ledger, users) == ledger \cup users \cup UsersOf(other_data)

\* global_users.extend([user for user in file_users if user not in global_users])
ExtendLedger(ledger, users) == ledger \cup {u \in users : u \notin ledger}

\* the failed batch is not rolled back: its first row stays
save_category_data_NoRollback(db, rows, ok) ==
    IF ok THEN db \o rows ELSE db \o SubSeq(rows, 1, 1)

\* save_category_data: executemany and commit, or rollback
save_category_data(db, rows, ok) == IF ok THEN db \o rows ELSE db

\* the url, not the filename, is looked up in the completed set: never found
IsCompleted_UrlLookedUp(filename, completed) == FALSE

\* if filename in completed_filenames: continue
IsCompleted(filename, completed) == filename \in completed

(* ----- the state machine ----- *)
ScanState == [buffer |-> buffer, rows_read |-> rows_read,
              lines_processed |-> lines_processed, priority_data |-> priority_data,
              other_data |-> other_data, file_users |-> file_users,
              accepted |-> accepted, parsed |-> parsed]

\* the scan's variables as lines 151-161 set them
NewScan == [buffer |-> <<>>, rows_read |-> 0, lines_processed |-> 0,
            priority_data |-> <<>>, other_data |-> <<>>, file_users |-> {},
            accepted |-> <<>>, parsed |-> <<>>]

SetScan(st) ==
    /\ buffer' = st.buffer
    /\ rows_read' = st.rows_read
    /\ lines_processed' = st.lines_processed
    /\ priority_data' = st.priority_data
    /\ other_data' = st.other_data
    /\ file_users' = st.file_users
    /\ accepted' = st.accepted

filename_at(i) == review_files[i]

Init ==
    /\ sink = <<>>
    /\ outcome = "none"
    /\ pc = "idle"
    /\ pos = 1
    /\ global_users = {}
    /\ completed_filenames = {}
    /\ opened = {}
    /\ failed = {}
    /\ drained = FALSE
    /\ buffer = <<>>
    /\ rows_read = 0
    /\ lines_processed = 0
    /\ priority_data = <<>>
    /\ other_data = <<>>
    /\ file_users = {}
    /\ final_data = <<>>
    /\ accepted = <<>>
    /\ parsed = <<>>
    /\ source = <<>>
    /\ offset = 0

\* main calls parse_review_files, which queries the sink twice
StartRun ==
    /\ pc = "idle"
    /\ outcome' = "running"
    /\ pc' = "loop"
    /\ pos' = 1
    /\ global_users' = get_existing_users(sink)
    /\ completed_filenames' = get_completed_categories(sink)
    /\ opened' = {}
    /\ failed' = {}
    /\ UNCHANGED <<sink, drained, scan, final_data, feed>>

\* the frame of parse_review_files is left: the scan's variables are gone; the
\* ledger and the run's sets stay as the record of the run that ended
LeaveFrame ==
    /\ pc' = "idle"
    /\ SetScan(NewScan)
    /\ final_data' = <<>>
    /\ drained' = FALSE

\* the for loop is exhausted: parse_review_files returns to main
Return ==
    /\ pc = "loop"
    /\ pos > Len(review_files)
    /\ LeaveFrame
    /\ outcome' = "returned"
    /\ UNCHANGED <<sink, pos, global_users, completed_filenames, opened,
                   failed, feed>>

\* the category is in the completed set: continue
Skip ==
    /\ pc = "loop"
    /\ pos <= Len(review_files)
    /\ IsCompleted(filename_at(pos), completed_filenames)
    /\ pos' = pos + 1
    /\ UNCHANGED <<sink, outcome, pc, global_users, completed_filenames,
                   opened, failed, drained, scan, final_data, feed>>

\* requests.get and raise_for_status succeed: the scan's variables are reset
OpenDownload ==
    /\ pc = "loop"
    /\ pos <= Len(review_files)
    /\ ~IsCompleted(filename_at(pos), completed_filenames)
    /\ opened' = opened \cup {filename_at(pos)}
    /\ pc' = "streaming"
    /\ drained' = FALSE
    /\ SetScan(NewScan)
    /\ UNCHANGED <<sink, outcome, pos, global_users, completed_filenames,
                   failed, final_data, feed>>

\* an exception leaves parse_review_files and is caught in main
Raise(exception) ==
    /\ LeaveFrame
    /\ outcome' = exception

\* requests.get raises: no response
DownloadFails ==
    /\ pc = "loop"
    /\ pos <= Len(review_files)
    /\ ~IsCompleted(filename_at(pos), completed_filenames)
    /\ opened' = opened \cup {filename_at(pos)}
    /\ Raise("ConnectionError")
    /\ UNCHANGED <<sink, pos, global_users, completed_filenames, failed,
                   feed>>

\* raise_for_status raises on an HTTP error status
HttpError ==
    /\ pc = "loop"
    /\ pos <= Len(review_files)
    /\ ~IsCompleted(filename_at(pos), completed_filenames)
    /\ opened' = opened \cup {filename_at(pos)}
    /\ Raise("HTTPError")
    /\ UNCHANGED <<sink, pos, global_users, completed_filenames, failed,
                   feed>>

\* the budget test off by one
BudgetSpent_OffByOne(n) == n > MAX_ROWS_TO_READ

\* if rows_read >= MAX_ROWS_TO_READ: break
BudgetSpent(n) == n >= MAX_ROWS_TO_READ

\* the scan after the chunk is decoded and its lines are split off
AfterChunk(chunk) == ProcessChunk(ScanState, chunk, global_users, filename_at(pos))

\* one iteration of the for loop over a chunk the source returned
TakeChunk(chunk) ==
    /\ IF BudgetSpent(rows_read)
       THEN /\ pc' = "sampled"
            /\ UNCHANGED scan
       ELSE LET st == AfterChunk(chunk)
            IN /\ Len(st.buffer) <= MaxLineLen
               /\ st.lines_processed <= MaxLines
               /\ SetScan(st)
               /\ pc' = "streaming"
    /\ UNCHANGED <<sink, outcome, pos, global_users, completed_filenames,
                   opened, failed, final_data>>

\* decompressor.read(8192) returns a full chunk
ReadChunk ==
    /\ pc = "streaming"
    /\ ~drained
    /\ \E chunk \in [1..ChunkSize -> Bytes] :
          /\ TakeChunk(chunk)
          /\ UNCHANGED <<drained, feed>>

\* decompressor.read(8192) returns the short last chunk of the source
ReadLastChunk ==
    /\ pc = "streaming"
    /\ ~drained
    /\ \E n \in 1..(ChunkSize - 1) : \E chunk \in [1..n -> Bytes] :
          /\ TakeChunk(chunk)
          /\ drained' = TRUE
          /\ UNCHANGED feed

\* decompressor.read(8192) returns b'': the for loop ends
ReadEnd ==
    /\ pc = "streaming"
    /\ pc' = "sampled"
    /\ drained' = TRUE
    /\ UNCHANGED <<sink, outcome, pos, global_users, completed_filenames,
                   opened, failed, scan, final_data, feed>>

\* decompressor.read raises: finally closes the source, the exception goes on
ReadError ==
    /\ pc = "streaming"
    /\ ~drained
    /\ Raise("OSError")
    /\ UNCHANGED <<sink, pos, global_users, completed_filenames, opened,
                   failed, feed>>

\* lines 211-241: the kept set, the ledger, the batch write
Finalize ==
    /\ pc = "sampled"
    /\ \E ok \in BOOLEAN :
        LET final == FinalData(priority_data, other_data)
            users == FileUsers(file_users, priority_data, final)
            rows  == final
        IN /\ final_data' = final
           /\ file_users' = users
           /\ global_users' = ExtendLedger(global_users, users)
           /\ IF final # <<>>
              THEN /\ sink' = save_category_data(sink, rows, ok)
                   /\ failed' = IF ok THEN failed ELSE failed \cup {filename_at(pos)}
              ELSE /\ ok
                   /\ UNCHANGED <<sink, failed>>
    /\ pc' = "loop"
    /\ pos' = pos + 1
    /\ accepted' = <<>>
    /\ UNCHANGED <<outcome, completed_filenames, opened, drained,
                   buffer, rows_read, lines_processed, priority_data, other_data,
                   feed>>

Next ==
    \/ StartRun
    \/ Return
    \/ Skip
    \/ OpenDownload
    \/ DownloadFails
    \/ HttpError
    \/ ReadChunk
    \/ ReadLastChunk
    \/ ReadEnd
    \/ ReadError
    \/ Finalize

Spec == Init /\ [][Next]_vars

(* ----- LineSpec: one source of known content, read in chunks of any sizes ----- *)
InitLines ==
    /\ sink = <<>>
    /\ outcome = "running"
    /\ pc = "streaming"
    /\ pos = 1
    /\ global_users = {}
    /\ completed_filenames = {}
    /\ opened = {filename_at(1)}
    /\ failed = {}
    /\ drained = FALSE
    /\ buffer = NewScan.buffer
    /\ rows_read = NewScan.rows_read
    /\ lines_processed = NewScan.lines_processed
    /\ priority_data = NewScan.priority_data
    /\ other_data = NewScan.other_data
    /\ file_users = NewScan.file_users
    /\ accepted = NewScan.accepted
    /\ parsed = NewScan.parsed
    /\ final_data = <<>>
    /\ source \in UNION {[1..n -> Bytes] : n \in 0..MaxSource}
    /\ offset = 0

\* decompressor.read(size) returns the next bytes of the source
FeedChunk ==
    /\ pc = "streaming"
    /\ offset < Len(source)
    /\ \E n \in 1..Min(MaxRead, Len(source) - offset) :
          LET chunk == SubSeq(source, offset + 1, offset + n)
          IN /\ TakeChunk(chunk)
             /\ offset' = offset + n
             /\ parsed' = IF BudgetSpent(rows_read) THEN parsed
                           ELSE AfterChunk(chunk).parsed
    /\ UNCHANGED <<drained, source>>

\* decompressor.read(size) returns b'' at the end of the source
FeedEnd ==
    /\ pc = "streaming"
    /\ offset = Len(source)
    /\ pc' = "sampled"
    /\ drained' = TRUE
    /\ UNCHANGED <<sink, outcome, pos, global_users, completed_filenames,
                   opened, failed, scan, final_data, feed>>

NextLines ==
    \/ FeedChunk
    \/ FeedEnd

LineSpec == InitLines /\ [][NextLines]_vars

(* ======================= the claims ======================= *)
FinalizeStep == pc = "sampled" /\ pc' = "loop"
ScanStep == pc = "streaming" /\ pc' \in {"streaming", "sampled"}
Exceptions == {"ConnectionError", "HTTPError", "OSError"}
Max(a, b) == IF a > b THEN a ELSE b

\* the accepted records of known users, and of new users, in arrival order
PriorityOf(acc, ledger) == SelectSeq(acc, LAMBDA r : r.user_id \in ledger)
OtherOf(acc, ledger) == SelectSeq(acc, LAMBDA r : r.user_id \notin ledger)

KeptSet(acc, ledger) ==
    LET p == PriorityOf(acc, ledger)
        o == OtherOf(acc, ledger)
    IN IF Len(p) < MAX_REVIEWS
       THEN p \o SubSeq(o, 1, Min(Len(o), MAX_REVIEWS - Len(p)))
       ELSE p

\* C1: the ledger is frozen while a category is scanned, and the kept set is all
\* priority records in arrival order followed, when there are fewer of them than
\* the cap, by the first min(len(other), cap - len(priority)) other records;
\* with len(priority) >= cap it is exactly the priority records.
C1_KeptSetIsPriorityThenOthers ==
    [][ /\ ScanStep => global_users' = global_users
        /\ FinalizeStep => final_data' = KeptSet(accepted, global_users) ]_vars

\* C1 witness: one priority record arrived after two other records; the kept
\* set is the priority record followed by the first other record.
C1_Witness ==
    /\ pc = "loop"
    /\ Len(priority_data) = 1
    /\ Len(other_data) = 2
    /\ final_data = <<priority_data[1], other_data[1]>>
    /\ priority_data[1] # other_data[1]

\* C2 as stated: the kept set never holds more records than the cap.
C2_KeptWithinCap == Len(final_data) <= MAX_REVIEWS

\* C2 amended: the kept set holds at most max(cap, len(priority)) records, so at
\* most the cap whenever the priority records do not exceed it, and never more
\* than the scan budget.
C2_KeptWithinCapOrPriority ==
    pc = "loop" =>
        /\ Len(final_data) <= Max(MAX_REVIEWS, Len(priority_data))
        /\ Len(final_data) <= MAX_ROWS_TO_READ

\* C2 witness: more other records than the cap were accepted and the kept set
\* stops at the cap.
C2_Witness ==
    /\ pc = "loop"
    /\ priority_data = <<>>
    /\ Len(other_data) > MAX_REVIEWS
    /\ Len(final_data) = MAX_REVIEWS

\* C3: a category in the completed set queried at the start of the run is not
\* re-scanned in that run: no download is opened for it, the sink's rows of it
\* stay as they are, and the step that meets it changes neither the ledger nor
\* anything but the position in the listing.
C3_CompletedNeverRescanned ==
    [][ \A f \in completed_filenames' :
          /\ f \notin opened'
          /\ f \in completed_filenames => RowsOf(sink', f) = RowsOf(sink, f)
          /\ (pc = "loop" /\ pos <= Len(review_files) /\ filename_at(pos) = f)
                => /\ global_users' = global_users
                   /\ sink' = sink
                   /\ pc' = "loop"
                   /\ pos' = pos + 1 ]_vars

\* C3 witness: a run found the first category completed, skipped it without a
\* download and is now scanning the second.
C3_Witness ==
    /\ pc = "streaming"
    /\ pos = 2
    /\ filename_at(1) \in completed_filenames
    /\ opened = {filename_at(2)}

\* C4: a failed batch write leaves the sink as it was, so the sink holds no row
\* of the failed category; the run goes on to the next category; and the next
\* run's startup query does not return the failed category.
C4_FailedWriteRolledBack ==
    [][ /\ (FinalizeStep /\ failed' # failed)
            => /\ sink' = sink
               /\ pos' = pos + 1
               /\ outcome' = outcome
        /\ \A f \in failed' :
              /\ RowsOf(sink', f) = <<>>
              /\ ~IsCompleted(f, get_completed_categories(sink'))
        /\ (pc = "idle" /\ pc' = "loop")
            => \A f \in failed : ~IsCompleted(f, completed_filenames') ]_vars

\* C4 witness: the first category's batch write failed and the same run is
\* scanning the second category.
C4_Witness ==
    /\ pc = "streaming"
    /\ pos = 2
    /\ filename_at(1) \in failed

\* C5 as stated: when a download or a read fails, every category of the listing
\* that was not completed at the start of the run is still processed in the run.
C5_FailureAbortsCategoryOnly ==
    (pc = "idle" /\ outcome \in Exceptions) =>
        \A i \in DOMAIN review_files :
            ~IsCompleted(filename_at(i), completed_filenames)
                => filename_at(i) \in opened

\* C6 as stated: the ledger never shrinks, neither from one category to the
\* next nor from the end of one run to the start of the next.
C6_LedgerNeverShrinks ==
    [][Cardinality(global_users') >= Cardinality(global_users)]_vars

\* C7: within a run the ledger changes only when a category's kept set is
\* finalized, and then it becomes the ledger of the start of the category
\* united with exactly the user ids of the kept records.
C7_LedgerGrowsByKeptUsers ==
    [][ pc # "idle" =>
          IF FinalizeStep
          THEN global_users' = global_users \cup UsersOf(final_data')
          ELSE global_users' = global_users ]_vars

\* C7 witness: a new user's record was accepted beyond the cap, was not kept,
\* and the user is not in the ledger, while the kept users are.
C7_Witness ==
    /\ pc = "loop"
    /\ Len(final_data) = MAX_REVIEWS
    /\ UsersOf(final_data) \subseteq global_users
    /\ \E i \in DOMAIN other_data : other_data[i].user_id \notin global_users

\* the lines handed to json.loads when the whole source arrives as one chunk
LinesOfWhole(bytes) == ProcessChunk(NewScan, bytes, {}, filename_at(1)).parsed

\* C8 as stated: however the source is cut into chunks, the lines handed to the
\* JSON parser are those of the uncut source.
C8_LinesIndependentOfChunks ==
    (pc = "sampled" /\ offset = Len(source)) => parsed = LinesOfWhole(source)

C10_LinesWithinBudget == lines_processed <= MAX_ROWS_TO_READ

\* C11 as stated: a category whose scan accepted no record gets an empty kept
\* set and is completed once it is processed: the sink's completed-filenames
\* query returns it from then on, so the next run skips it.
C11_EmptyCategoryCompleted ==
    [][ (FinalizeStep /\ rows_read = 0)
          => /\ final_data' = <<>>
             /\ IsCompleted(filename_at(pos), get_completed_categories(sink')) ]_vars

====
